---- MODULE Spec2Model ----
(***************************************************************************)
(* smart-shell MCP server (src/unnamed/part_000): the command-key store,   *)
(* the segment splitter, the per-segment and command-line translators and  *)
(* the executeCommand handler.                                             *)
(*                                                                         *)
(* A JavaScript string is a sequence of one-character strings.  A          *)
(* JavaScript value that may be a string, undefined or a function is a     *)
(* record [t, s] (see Str, Undefined, FunctionObject).                     *)
(***************************************************************************)
EXTENDS Integers, Sequences, FiniteSets, TLC

VARIABLES
  projectCommands,  \* the file at PROJECT_COMMANDS_PATH
  commandMap,       \* the file at COMMAND_MAP_PATH
  objectPrototype,  \* the own properties of the process-wide Object.prototype
  os,               \* what getOS() returns on this host
  call,             \* the last finished invocation: its inputs and what it returned
  hist              \* history of the run, for the properties that span invocations

vars == <<projectCommands, commandMap, objectPrototype, os, call, hist>>

----------------------------------------------------------------------------
(* Bounds *)

MaxLen == 5      \* length of a raw command drawn character by character
MaxAtoms == 3    \* number of atoms a raw command or a tail is built from
MaxKeys == 2     \* number of base keys of a translation table
MaxOps == 2      \* number of tool invocations in one run of the server

----------------------------------------------------------------------------
(* Strings *)

Min(a, b) == IF a < b THEN a ELSE b

\* the characters String.prototype.trim and the regex classes \s, \S treat as white space
WhiteSpace == {" "}

IsBlank(s) == \A i \in 1..Len(s) : s[i] \in WhiteSpace

\* String.prototype.trim
Trim(s) ==
  IF IsBlank(s) THEN <<>>
  ELSE LET nb == {i \in 1..Len(s) : s[i] \notin WhiteSpace}
           a == CHOOSE i \in nb : \A j \in nb : i <= j
           b == CHOOSE i \in nb : \A j \in nb : j <= i
       IN SubSeq(s, a, b)

\* String.prototype.toLowerCase, on the letters the model draws
LowerChar(c) ==
  CASE c = "R" -> "r"
    [] c = "M" -> "m"
    [] c = "L" -> "l"
    [] c = "S" -> "s"
    [] c = "N" -> "n"
    [] c = "P" -> "p"
    [] c = "I" -> "i"
    [] OTHER -> c

ToLowerCase(s) == [i \in 1..Len(s) |-> LowerChar(s[i])]

\* String.prototype.startsWith
StartsWith(s, p) == Len(p) <= Len(s) /\ SubSeq(s, 1, Len(p)) = p

\* String.prototype.slice(i, j) with 0 <= i <= j, as 1-based SubSeq
Slice(s, i, j) == SubSeq(s, i + 1, Min(j, Len(s)))

\* does p occur in s starting at (1-based) position i
OccursAt(s, p, i) == i >= 1 /\ i + Len(p) - 1 <= Len(s) /\ SubSeq(s, i, i + Len(p) - 1) = p

\* String.prototype.includes
Includes(s, p) == \E i \in 1..(Len(s) + 1) : OccursAt(s, p, i)

RECURSIVE Concat(_)
\* the concatenation of a sequence of strings
Concat(ss) == IF ss = <<>> THEN <<>> ELSE Head(ss) \o Concat(Tail(ss))

RECURSIVE Join(_, _)
\* Array.prototype.join
Join(ss, sep) ==
  IF ss = <<>> THEN <<>>
  ELSE IF Len(ss) = 1 THEN ss[1]
  ELSE ss[1] \o sep \o Join(Tail(ss), sep)

\* the strings of length at most n over the alphabet A
StringsUpTo(A, n) == UNION {[1..k -> A] : k \in 0..n}

\* the concatenations of at most n atoms
RECURSIVE AtomStrings(_, _)
AtomStrings(atoms, n) ==
  IF n = 0 THEN {<<>>}
  ELSE LET shorter == AtomStrings(atoms, n - 1)
       IN shorter \cup {s \o a : s \in shorter, a \in atoms}

----------------------------------------------------------------------------
(* Segment splitter *)

AndAnd == <<"&", "&">>
OrOr == <<"|", "|">>
Pipe == <<"|">>
Semi == <<";">>

\* the list ["&&", "||", "|", ";"] of translateCommandForOS
Separators == {AndAnd, OrOr, Pipe, Semi}

\* if (buf.trim()) parts.push(buf.trim())
Flush(parts, buf) == IF Trim(buf) # <<>> THEN Append(parts, Trim(buf)) ELSE parts

RECURSIVE SplitLoop(_, _, _, _)
\* the while loop of splitPipelines; i is the 0-based index of the code
SplitLoop(cmd, i, buf, parts) ==
  IF ~(i < Len(cmd)) THEN Flush(parts, buf)
  ELSE LET two == Slice(cmd, i, i + 2)
           ch == cmd[i + 1]
       IN IF two = AndAnd \/ two = OrOr
            THEN SplitLoop(cmd, i + 2, <<>>, Append(Flush(parts, buf), two))
          ELSE IF ch = "|"
            THEN SplitLoop(cmd, i + 1, <<>>, Append(Flush(parts, buf), Pipe))
          ELSE IF ch = ";"
            THEN SplitLoop(cmd, i + 1, <<>>, Append(Flush(parts, buf), Semi))
          ELSE SplitLoop(cmd, i + 1, Append(buf, ch), parts)

RECURSIVE SplitLoopSingleFirst(_, _, _, _)
\* a splitter that tests the one-character separators before the two-character ones
SplitLoopSingleFirst(cmd, i, buf, parts) ==
  IF ~(i < Len(cmd)) THEN Flush(parts, buf)
  ELSE LET two == Slice(cmd, i, i + 2)
           ch == cmd[i + 1]
       IN IF ch = "|"
            THEN SplitLoopSingleFirst(cmd, i + 1, <<>>, Append(Flush(parts, buf), Pipe))
          ELSE IF ch = ";"
            THEN SplitLoopSingleFirst(cmd, i + 1, <<>>, Append(Flush(parts, buf), Semi))
          ELSE IF two = AndAnd \/ two = OrOr
            THEN SplitLoopSingleFirst(cmd, i + 2, <<>>, Append(Flush(parts, buf), two))
          ELSE SplitLoopSingleFirst(cmd, i + 1, Append(buf, ch), parts)

splitPipelinesSingleFirst(cmd) == SplitLoopSingleFirst(cmd, 0, <<>>, <<>>)

splitPipelines(cmd) == SplitLoop(cmd, 0, <<>>, <<>>)

----------------------------------------------------------------------------
(* JavaScript values *)

Str(s) == [t |-> "string", s |-> s]
Undefined == [t |-> "undefined", s |-> <<>>]
\* a built-in function object, such as the inherited Object.prototype.constructor
FunctionObject == [t |-> "function", s |-> <<>>]

\* a ?? b
Nullish(a, b) == IF a.t = "undefined" THEN b ELSE a

\* !a, for a string, undefined or a function
Falsy(a) == a.t = "undefined" \/ (a.t = "string" /\ a.s = <<>>)

----------------------------------------------------------------------------
(* Per-segment translator *)

OSes == {"windows", "linux", "darwin"}

Rm == <<"r", "m">>
DashRf == <<"-", "r", "f">>
RmRfKey == <<"r", "m", " ", "-", "r", "f">>

\* m[1] of /^(\S+)(.*)$/s: the longest leading run of non-white-space characters
HeadOf(cmd) ==
  LET ws == {i \in 1..Len(cmd) : cmd[i] \in WhiteSpace}
      n == IF ws = {} THEN Len(cmd) ELSE (CHOOSE i \in ws : \A j \in ws : i <= j) - 1
  IN SubSeq(cmd, 1, n)

\* m[2]: everything after the head
TailOf(cmd) == SubSeq(cmd, Len(HeadOf(cmd)) + 1, Len(cmd))

\* base[key]?.[os], for an own key of base at index k; vals[o] is Undefined when the
\* key has no value for that OS
OsValue(base, k, o) == base[k].vals[o]

\* the for loop over Object.keys(base): the value of the first key that equals the
\* lowered head case-insensitively, ?? head; undefined when no key does
Replacement(base, head, o) ==
  LET hits == {k \in 1..Len(base) : ToLowerCase(base[k].key) = ToLowerCase(head)}
  IN IF hits = {} THEN Undefined
     ELSE LET k == CHOOSE i \in hits : \A j \in hits : i <= j
          IN Nullish(OsValue(base, k, o), Str(head))

\* base["rm -rf"]?.[os]
MappedRmRf(base, o) ==
  LET own == {k \in 1..Len(base) : base[k].key = RmRfKey}
  IN IF own = {} THEN Undefined
     ELSE OsValue(base, CHOOSE k \in own : TRUE, o)

\* s.replace(/^\-rf\s*/, "")
StripRf(s) ==
  IF ~StartsWith(s, DashRf) THEN s
  ELSE LET rest == SubSeq(s, Len(DashRf) + 1, Len(s))
           nb == {i \in 1..Len(rest) : rest[i] \notin WhiteSpace}
       IN IF nb = {} THEN <<>>
          ELSE SubSeq(rest, CHOOSE i \in nb : \A j \in nb : i <= j, Len(rest))

\* a translator that compares the head with the base keys case-sensitively
translateSingleCaseSensitive(cmd, o, map) ==
  IF cmd = <<>> \/ cmd[1] \in WhiteSpace THEN cmd
  ELSE LET head == HeadOf(cmd)
           tail == TailOf(cmd)
           hits == {k \in 1..Len(map.base) : map.base[k].key = head}
           replacement ==
             IF hits = {} THEN Undefined
             ELSE Nullish(OsValue(map.base, CHOOSE i \in hits : \A j \in hits : i <= j, o),
                          Str(head))
           mapped == MappedRmRf(map.base, o)
       IN IF /\ Falsy(replacement)
             /\ ToLowerCase(head) = Rm
             /\ StartsWith(Trim(tail), DashRf)
             /\ ~Falsy(mapped)
            THEN Trim(mapped.s \o <<" ">> \o StripRf(Trim(tail)))
          ELSE Trim(Nullish(replacement, Str(head)).s \o tail)

\* a translator that keeps the -rf flag in the rewritten recursive delete
translateSingleKeepFlag(cmd, o, map) ==
  IF cmd = <<>> \/ cmd[1] \in WhiteSpace THEN cmd
  ELSE LET head == HeadOf(cmd)
           tail == TailOf(cmd)
           replacement == Replacement(map.base, head, o)
           mapped == MappedRmRf(map.base, o)
       IN IF /\ Falsy(replacement)
             /\ ToLowerCase(head) = Rm
             /\ StartsWith(Trim(tail), DashRf)
             /\ ~Falsy(mapped)
            THEN Trim(mapped.s \o <<" ">> \o Trim(tail))
          ELSE Trim(Nullish(replacement, Str(head)).s \o tail)

translateSingle(cmd, o, map) ==
  IF cmd = <<>> \/ cmd[1] \in WhiteSpace THEN cmd     \* if (!m) return cmd
  ELSE LET head == HeadOf(cmd)
           tail == TailOf(cmd)
           replacement == Replacement(map.base, head, o)
           mapped == MappedRmRf(map.base, o)
       IN IF /\ Falsy(replacement)
             /\ ToLowerCase(head) = Rm
             /\ StartsWith(Trim(tail), DashRf)
             /\ ~Falsy(mapped)
            THEN Trim(mapped.s \o <<" ">> \o StripRf(Trim(tail)))
          ELSE Trim(Nullish(replacement, Str(head)).s \o tail)

----------------------------------------------------------------------------
(* Command-line translator *)

\* segments.map(...)
TranslateSegments(segments, o, map) ==
  [i \in 1..Len(segments) |->
     IF segments[i] \in Separators THEN segments[i]
     ELSE translateSingle(segments[i], o, map)]

\* a command-line translator that joins the tokens without the space
translateCommandForOSNoSpace(r, o, map) ==
  Concat(TranslateSegments(splitPipelines(r), o, map))

translateCommandForOS(r, o, map) ==
  Join(TranslateSegments(splitPipelines(r), o, map), <<" ">>)

----------------------------------------------------------------------------
(* Argument quoting *)

\* the characters of /^[A-Za-z0-9_\-\.\/]+$/
SafeChars ==
  {"a", "b", "c", "d", "e", "f", "g", "h", "i", "j", "k", "l", "m", "n", "o", "p", "q",
   "r", "s", "t", "u", "v", "w", "x", "y", "z",
   "A", "B", "C", "D", "E", "F", "G", "H", "I", "J", "K", "L", "M", "N", "O", "P", "Q",
   "R", "S", "T", "U", "V", "W", "X", "Y", "Z",
   "0", "1", "2", "3", "4", "5", "6", "7", "8", "9", "_", "-", ".", "/"}

\* the characters of the regex class \w
WordChars == SafeChars \ {"-", ".", "/"}

\* a.replace(/"/g, '\\"')
EscapeQuotes(a) ==
  Concat([i \in 1..Len(a) |-> IF a[i] = "\"" THEN <<"\\", "\"">> ELSE <<a[i]>>])

quoteArg(a) ==
  IF a # <<>> /\ \A i \in 1..Len(a) : a[i] \in SafeChars THEN a
  ELSE <<"\"">> \o EscapeQuotes(a) \o <<"\"">>

\* [translated, ...(args || []).map(quoteArg)].filter(Boolean).join(" ")
FullCommand(translated, args) ==
  Join(SelectSeq(<<translated>> \o [i \in 1..Len(args) |-> quoteArg(args[i])],
                 LAMBDA x : x # <<>>),
       <<" ">>)

----------------------------------------------------------------------------
(* Suggestion engine *)

NpmSpace == <<"n", "p", "m", " ">>
Npm == <<"n", "p", "m">>
NpmRun == <<"n", "p", "m", " ", "r", "u", "n">>
Pip == <<"p", "i", "p">>
Bun == <<"b", "u", "n">>
Yarn == <<"y", "a", "r", "n">>
PnpmRun == <<"p", "n", "p", "m", " ", "r", "u", "n">>
BunInstall == <<"b", "u", "n", " ", "i", "n", "s", "t", "a", "l", "l">>
BunRunDev == <<"b", "u", "n", " ", "r", "u", "n", " ", "d", "e", "v">>
YarnInstall == <<"y", "a", "r", "n", " ", "i", "n", "s", "t", "a", "l", "l">>
PnpmInstall == <<"p", "n", "p", "m", " ", "i", "n", "s", "t", "a", "l", "l">>
PoetryInstall == <<"p", "o", "e", "t", "r", "y", " ", "i", "n", "s", "t", "a", "l", "l">>
PipenvInstall == <<"p", "i", "p", "e", "n", "v", " ", "i", "n", "s", "t", "a", "l", "l">>

\* is there a regex word boundary \b between positions i - 1 and i of s
WordBoundary(s, i) ==
  LET isWord(j) == j >= 1 /\ j <= Len(s) /\ s[j] \in WordChars
  IN isWord(i - 1) # isWord(i)

\* does /\bpat\b/ match s at position i
WordAt(s, pat, i) ==
  OccursAt(s, pat, i) /\ WordBoundary(s, i) /\ WordBoundary(s, i + Len(pat))

RECURSIVE ReplaceWordFrom(_, _, _, _)
\* s.replace(/\bpat\b/g, rep), from position i on
ReplaceWordFrom(s, i, pat, rep) ==
  IF i > Len(s) THEN <<>>
  ELSE IF WordAt(s, pat, i) THEN rep \o ReplaceWordFrom(s, i + Len(pat), pat, rep)
  ELSE <<s[i]>> \o ReplaceWordFrom(s, i + 1, pat, rep)

ReplaceWord(s, pat, rep) == ReplaceWordFrom(s, 1, pat, rep)

\* the five booleans detectProjectFlavor returns, as the set of the true ones
FlavorNames == {"bun", "yarn", "pnpm", "poetry", "pipenv"}

\* a suggestion engine that decides from the error text of the child process
buildSuggestionFromStderr(cmd, stderr, flavor, key) ==
  IF Includes(ToLowerCase(stderr), Npm) /\ flavor # {} THEN Str(BunInstall) ELSE Undefined

\* buildSuggestion(cmd, stderr, flavor, key); the body never reads stderr
buildSuggestion(cmd, stderr, flavor, key) ==
  LET lc == ToLowerCase(cmd)
      fromPip ==
        IF \E i \in 1..Len(lc) : WordAt(lc, Pip, i)
          THEN IF "poetry" \in flavor THEN Str(PoetryInstall)
               ELSE IF "pipenv" \in flavor THEN Str(PipenvInstall)
               ELSE Undefined
        ELSE Undefined
  IN IF Includes(lc, NpmSpace)
       THEN IF "bun" \in flavor
              THEN IF key = "install" THEN Str(BunInstall)
                   ELSE IF key = "run" THEN Str(BunRunDev)
                   ELSE Str(ReplaceWord(cmd, Npm, Bun))
            ELSE IF "yarn" \in flavor
              THEN IF key = "install" THEN Str(YarnInstall)
                   ELSE Str(ReplaceWord(cmd, NpmRun, Yarn))
            ELSE IF "pnpm" \in flavor
              THEN IF key = "install" THEN Str(PnpmInstall)
                   ELSE Str(ReplaceWord(cmd, NpmRun, PnpmRun))
            ELSE fromPip
     ELSE fromPip

----------------------------------------------------------------------------
(* Configuration files and JavaScript objects *)

\* project names a caller passes; "__proto__" reads the prototype of the table object
ProjectNames == {"default", "p", "__proto__"}

\* the project names that are own properties of a stored table
OwnNames == {"default", "p"}

\* command keys a caller passes; "constructor" is inherited by every plain object
Keys == {"install", "run", "constructor"}

\* the keys that Object.prototype does not define as the process starts
PlainKeys == {"install", "run"}

NpmInstall == <<"n", "p", "m", " ", "i", "n", "s", "t", "a", "l", "l">>
NpmStart == <<"n", "p", "m", " ", "s", "t", "a", "r", "t">>
Ls == <<"l", "s">>

NoCommands == [k \in Keys |-> Undefined]

\* a project with no sub-mapping, and one with the empty sub-mapping {}
NoSub == [has |-> FALSE, cmds |-> NoCommands]
EmptySub == [has |-> TRUE, cmds |-> NoCommands]

\* a table with no sub-mapping at all
NoTable == [n \in OwnNames |-> NoSub]

\* the fallback of resolveProjectCommand
Defaults ==
  [n \in OwnNames |->
     IF n = "default"
       THEN [has |-> TRUE,
             cmds |-> [k \in Keys |-> CASE k = "install" -> Str(NpmInstall)
                                        [] k = "run" -> Str(NpmStart)
                                        [] OTHER -> Undefined]]
     ELSE NoSub]

\* the fallback { default: {} } of the other three store operations
EmptyDefault == [n \in OwnNames |-> IF n = "default" THEN EmptySub ELSE NoSub]

\* the fallback { base: {} } of the translation table
EmptyMap == [base |-> <<>>]

AbsentFile(dflt) == [st |-> "absent", data |-> dflt]
CorruptFile(dflt) == [st |-> "corrupt", data |-> dflt]
OkFile(d) == [st |-> "ok", data |-> d]

\* loadJson(p, fallback): what it returns and what the file holds afterwards.  A file
\* that cannot be read or parsed is overwritten with the fallback.
loadJson(file, fallback) ==
  IF file.st = "ok" THEN [data |-> file.data, file |-> file]
  ELSE [data |-> fallback, file |-> OkFile(fallback)]

\* saveJson(p, data): the file afterwards
saveJson(data) == OkFile(data)

\* Object.prototype as the process starts: constructor is a non-enumerable function
InitialPrototype ==
  [k \in Keys |-> IF k = "constructor"
                    THEN [v |-> FunctionObject, enumerable |-> FALSE]
                  ELSE [v |-> Undefined, enumerable |-> FALSE]]

\* what data[projectName] evaluates to: an own sub-mapping, Object.prototype (through
\* the __proto__ accessor) or undefined
ObjectAt(data, pn) ==
  IF pn \in OwnNames /\ data[pn].has THEN "own"
  ELSE IF pn = "__proto__" THEN "prototype"
  ELSE "undefined"

\* data[projectName]?.[key]: an own property, else the one inherited from Object.prototype
PropertyOf(data, proto, pn, key) ==
  CASE ObjectAt(data, pn) = "own" ->
         IF data[pn].cmds[key].t # "undefined" THEN data[pn].cmds[key] ELSE proto[key].v
    [] ObjectAt(data, pn) = "prototype" -> proto[key].v
    [] OTHER -> Undefined

\* the own enumerable property key of data[projectName] || {}, which is what the
\* object spread copies
OwnEnumerable(data, proto, pn, key) ==
  CASE ObjectAt(data, pn) = "own" -> data[pn].cmds[key]
    [] ObjectAt(data, pn) = "prototype" ->
         IF proto[key].enumerable THEN proto[key].v ELSE Undefined
    [] OTHER -> Undefined

----------------------------------------------------------------------------
(* Command resolver *)

\* return fromProject ?? fromDefault, on the table loadJson returned
resolveProjectCommand(data, proto, pn, key) ==
  Nullish(PropertyOf(data, proto, pn, key), PropertyOf(data, proto, "default", key))

\* { ...(data.default || {}), ...(data[projectName] || {}) }
getMergedCommands(data, proto, pn) ==
  [k \in Keys |-> Nullish(OwnEnumerable(data, proto, pn, k),
                          OwnEnumerable(data, proto, "default", k))]

\* a setProjectCommand that saves a table holding the new entry alone
setProjectCommandFresh(data, proto, pn, key, value) ==
  [data |-> [NoTable EXCEPT ![pn] = [has |-> TRUE,
                                      cmds |-> [NoCommands EXCEPT ![key] = Str(value)]]],
   proto |-> proto]

\* setProjectCommand on the loaded table: the table saved and Object.prototype afterwards
setProjectCommand(data, proto, pn, key, value) ==
  CASE ObjectAt(data, pn) = "own" ->
         [data |-> [data EXCEPT ![pn].cmds[key] = Str(value)], proto |-> proto]
    [] ObjectAt(data, pn) = "undefined" ->
         [data |-> [data EXCEPT ![pn] = [has |-> TRUE,
                                        cmds |-> [NoCommands EXCEPT ![key] = Str(value)]]],
          proto |-> proto]
    [] OTHER ->  \* data["__proto__"][key] = value writes to Object.prototype
         [data |-> data,
          proto |-> [proto EXCEPT ![key] =
                       [v |-> Str(value),
                        enumerable |-> IF proto[key].v.t = "undefined" THEN TRUE
                                       ELSE proto[key].enumerable]]]

\* removeProjectCommand on the loaded table: what it returns, whether it saved, the
\* table saved and Object.prototype afterwards
removeProjectCommand(data, proto, pn, key) ==
  CASE ObjectAt(data, pn) = "undefined" ->
         [removed |-> FALSE, saved |-> FALSE, data |-> data, proto |-> proto]
    [] ObjectAt(data, pn) = "own" ->
         [removed |-> data[pn].cmds[key].t # "undefined", saved |-> TRUE,
          data |-> [data EXCEPT ![pn].cmds[key] = Undefined], proto |-> proto]
    [] OTHER ->  \* delete data["__proto__"][key] deletes from Object.prototype
         [removed |-> proto[key].v.t # "undefined", saved |-> TRUE, data |-> data,
          proto |-> [proto EXCEPT ![key] = [v |-> Undefined, enumerable |-> FALSE]]]

----------------------------------------------------------------------------
(* Process execution *)

\* how the child process ends: the code of the close event is null when a signal ended it
Terminations ==
  {[signalled |-> FALSE, code |-> 0, stderr |-> <<>>],
   [signalled |-> FALSE, code |-> 1, stderr |-> Npm],
   [signalled |-> TRUE, code |-> 0, stderr |-> <<>>]}

\* exitCode: code ?? 0
ExitCode(term) == IF term.signalled THEN 0 ELSE term.code

\* the executeCommand handler after resolveProjectCommand: what it returns and the
\* commands it handed to spawn.  splitPipelines throws on a function (no slice method)
\* and spawn throws on the empty command; the handler then rejects.
ExecuteResolved(projectCmd, map, o, key, args, flavor, term) ==
  IF Falsy(projectCmd)
    THEN [kind |-> "COMMAND_NOT_FOUND", suggestion |-> Undefined, resolvedCommand |-> <<>>,
          exitCode |-> 0, spawned |-> <<>>, ended |-> <<>>]
  ELSE IF projectCmd.t = "function"
    THEN [kind |-> "THROWN", suggestion |-> Undefined, resolvedCommand |-> <<>>,
          exitCode |-> 0, spawned |-> <<>>, ended |-> <<>>]
  ELSE LET full == FullCommand(translateCommandForOS(projectCmd.s, o, map), args)
       IN IF full = <<>>
            THEN [kind |-> "THROWN", suggestion |-> Undefined, resolvedCommand |-> <<>>,
                  exitCode |-> 0, spawned |-> <<>>, ended |-> <<>>]
          ELSE IF ExitCode(term) # 0
            THEN [kind |-> "COMMAND_FAILED",
                  suggestion |-> buildSuggestion(projectCmd.s, term.stderr, flavor, key),
                  resolvedCommand |-> full, exitCode |-> ExitCode(term),
                  spawned |-> <<full>>, ended |-> <<term>>]
          ELSE [kind |-> "SUCCESS", suggestion |-> Undefined, resolvedCommand |-> full,
                exitCode |-> ExitCode(term), spawned |-> <<full>>, ended |-> <<term>>]

----------------------------------------------------------------------------
(* Inputs *)

\* values a caller stores with setProjectCommand
Values == {<<>>, <<" ">>, Ls}

\* the args of executeCommand: absent, or one argument that needs quoting
ArgLists == {<<>>, << <<"a", " ", "b">> >>}

\* what detectProjectFlavor finds in the working directory
Flavors == {{}, {"bun"}, {"poetry"}}

Dir == <<"d", "i", "r">>
\* the translation table of the README
LsMap ==
  [base |-> << [key |-> Ls,
                vals |-> [o \in OSes |-> IF o = "windows" THEN Str(Dir) ELSE Str(Ls)]] >>]

\* a stored table with an override: { default: {install, run}, p: { install: "ls" } }
OverrideTable == [Defaults EXCEPT !["p"] = [has |-> TRUE,
                                           cmds |-> [NoCommands EXCEPT !["install"] = Str(Ls)]]]

NoHistory ==
  [n |-> 0, startedMissing |-> FALSE, defaultInstallChanged |-> FALSE,
   pinned |-> [x \in ProjectNames \X Keys |-> Undefined]]

NoCall == [op |-> "none"]

----------------------------------------------------------------------------
(* Tool handlers *)

\* executeCommand({ projectName, commandKey, args }); flavor and term are what the
\* working directory and the child process turn out to be
ExecuteCommand(pn, key, args, flavor, term) ==
  LET lm == loadJson(commandMap, EmptyMap)
      lp == loadJson(projectCommands, Defaults)
      projectCmd == resolveProjectCommand(lp.data, objectPrototype, pn, key)
  IN /\ hist.n < MaxOps
     /\ commandMap' = lm.file
     /\ projectCommands' = lp.file
     /\ call' = [op |-> "executeCommand", projectName |-> pn, key |-> key, args |-> args,
                 before |-> projectCommands, loaded |-> lp.data,
                 protoBefore |-> objectPrototype, resolved |-> projectCmd,
                 payload |-> ExecuteResolved(projectCmd, lm.data, os, key, args, flavor, term)]
     /\ hist' = [hist EXCEPT !.n = @ + 1]
     /\ UNCHANGED <<objectPrototype, os>>

\* the ways a child process can end, when the invocation runs one
EndingsOf(pn, key, args) ==
  LET lm == loadJson(commandMap, EmptyMap)
      lp == loadJson(projectCommands, Defaults)
      projectCmd == resolveProjectCommand(lp.data, objectPrototype, pn, key)
      clean == [signalled |-> FALSE, code |-> 0, stderr |-> <<>>]
      probe == ExecuteResolved(projectCmd, lm.data, os, key, args, {}, clean)
  IN IF probe.spawned = <<>> THEN {clean} ELSE Terminations

\* getProjectCommands({ projectName })
GetProjectCommands(pn) ==
  LET lp == loadJson(projectCommands, EmptyDefault)
  IN /\ hist.n < MaxOps
     /\ projectCommands' = lp.file
     /\ call' = [op |-> "getProjectCommands", projectName |-> pn,
                 before |-> projectCommands, loaded |-> lp.data,
                 protoBefore |-> objectPrototype,
                 commands |-> getMergedCommands(lp.data, objectPrototype, pn)]
     /\ hist' = [hist EXCEPT !.n = @ + 1]
     /\ UNCHANGED <<commandMap, objectPrototype, os>>

\* setProjectCommand({ projectName, key, value })
SetProjectCommand(pn, key, value) ==
  LET lp == loadJson(projectCommands, EmptyDefault)
      res == setProjectCommand(lp.data, objectPrototype, pn, key, value)
  IN /\ hist.n < MaxOps
     /\ projectCommands' = saveJson(res.data)
     /\ objectPrototype' = res.proto
     /\ call' = [op |-> "setProjectCommand", projectName |-> pn, key |-> key,
                 value |-> value, before |-> projectCommands, loaded |-> lp.data,
                 protoBefore |-> objectPrototype]
     /\ hist' = [hist EXCEPT !.n = @ + 1,
                             !.pinned[<<pn, key>>] = Str(value),
                             !.defaultInstallChanged =
                               @ \/ (pn = "default" /\ key = "install")]
     /\ UNCHANGED <<commandMap, os>>

\* removeProjectCommand({ projectName, key })
RemoveProjectCommand(pn, key) ==
  LET lp == loadJson(projectCommands, EmptyDefault)
      res == removeProjectCommand(lp.data, objectPrototype, pn, key)
  IN /\ hist.n < MaxOps
     /\ projectCommands' = IF res.saved THEN saveJson(res.data) ELSE lp.file
     /\ objectPrototype' = res.proto
     /\ call' = [op |-> "removeProjectCommand", projectName |-> pn, key |-> key,
                 before |-> projectCommands, loaded |-> lp.data,
                 protoBefore |-> objectPrototype,
                 removed |-> res.removed, saved |-> res.saved]
     /\ hist' = [hist EXCEPT !.n = @ + 1,
                             !.pinned[<<pn, key>>] = Undefined,
                             !.defaultInstallChanged =
                               @ \/ (pn = "default" /\ key = "install")]
     /\ UNCHANGED <<commandMap, os>>

\* translateCommand({ rawCommand })
TranslateCommand(r) ==
  LET lm == loadJson(commandMap, EmptyMap)
  IN /\ commandMap' = lm.file
     /\ call' = [op |-> "translateCommand", original |-> r, map |-> lm.data,
                 translated |-> translateCommandForOS(r, os, lm.data)]
     /\ UNCHANGED <<projectCommands, objectPrototype, os>>

----------------------------------------------------------------------------
(* The server: the five tools, invoked one after the other *)

Init ==
  /\ projectCommands \in {AbsentFile(NoTable), CorruptFile(NoTable), OkFile(Defaults),
                          OkFile(OverrideTable)}
  /\ commandMap \in {AbsentFile(EmptyMap), OkFile(LsMap)}
  /\ objectPrototype = InitialPrototype
  /\ os \in OSes
  /\ call = NoCall
  /\ hist = [NoHistory EXCEPT !.startedMissing = projectCommands.st # "ok"]

ToolExecuteCommand ==
  /\ hist.n < MaxOps
  /\ \E pn \in ProjectNames, key \in Keys, args \in ArgLists :
       \E term \in EndingsOf(pn, key, args) :
         \E flavor \in IF ExitCode(term) = 0 THEN {{}} ELSE Flavors :
           ExecuteCommand(pn, key, args, flavor, term)

ToolGetProjectCommands ==
  /\ hist.n < MaxOps
  /\ \E pn \in ProjectNames : GetProjectCommands(pn)

ToolSetProjectCommand ==
  /\ hist.n < MaxOps
  /\ \E pn \in ProjectNames, key \in Keys, value \in Values : SetProjectCommand(pn, key, value)

ToolRemoveProjectCommand ==
  /\ hist.n < MaxOps
  /\ \E pn \in ProjectNames, key \in Keys : RemoveProjectCommand(pn, key)

ToolTranslateCommand ==
  /\ hist.n < MaxOps
  /\ \E r \in {Ls, Ls \o <<" ">> \o AndAnd \o <<" ">> \o Ls} : TranslateCommand(r)
  /\ hist' = [hist EXCEPT !.n = @ + 1]

Next ==
  \/ ToolExecuteCommand
  \/ ToolGetProjectCommands
  \/ ToolSetProjectCommand
  \/ ToolRemoveProjectCommand
  \/ ToolTranslateCommand

Spec == Init /\ [][Next]_vars

----------------------------------------------------------------------------
(* The stored table as the specification reads it: entries (project, key) -> value *)

\* table[p][k] of a stored file, Undefined when the file, the sub-mapping or the key
\* is missing
EntryOf(file, pn, key) ==
  IF file.st = "ok" /\ pn \in OwnNames /\ file.data[pn].has THEN file.data[pn].cmds[key]
  ELSE Undefined

\* project entry first, then the default entry, then NOT_FOUND (Undefined)
PrecedenceOf(file, pn, key) == Nullish(EntryOf(file, pn, key), EntryOf(file, "default", key))

\* the handlers' reads on the current state of the store
ResolveNow(pn, key) ==
  resolveProjectCommand(loadJson(projectCommands, Defaults).data, objectPrototype, pn, key)

MergedNow(pn) ==
  getMergedCommands(loadJson(projectCommands, EmptyDefault).data, objectPrototype, pn)

----------------------------------------------------------------------------
(* C1..C6: the command-key store and executeCommand, under Spec *)

\* C1: resolve(p, k) is table[p][k] when the project's own sub-mapping has k,
\* otherwise table["default"][k] when default has k, otherwise NOT_FOUND, and
\* getMerged(p) has k exactly when resolve(p, k) is found, with the same value.
C1_ResolvePrecedence ==
  /\ call.op = "executeCommand" =>
       call.resolved = PrecedenceOf(OkFile(call.loaded), call.projectName, call.key)
  /\ call.op = "getProjectCommands" =>
       \A k \in Keys :
         /\ call.commands[k] = PrecedenceOf(OkFile(call.loaded), call.projectName, k)
         /\ call.commands[k] =
              resolveProjectCommand(call.loaded, call.protoBefore, call.projectName, k)

\* C2: executeCommand returns COMMAND_NOT_FOUND exactly when neither table[p] nor
\* table["default"] contains k, and then spawns nothing; whenever a mapping exists in
\* either sub-mapping a process is run.  Stated for the project names and keys that
\* no object inherits (C1 covers the inherited ones).
C2_NotFoundIffNoMapping ==
  (call.op = "executeCommand" /\ call.projectName \in OwnNames /\ call.key \in PlainKeys) =>
    LET mapped == PrecedenceOf(OkFile(call.loaded), call.projectName, call.key).t # "undefined"
    IN /\ (call.payload.kind = "COMMAND_NOT_FOUND") <=> ~mapped
       /\ ~mapped => call.payload.spawned = <<>>
       /\ mapped => Len(call.payload.spawned) = 1

\* C3: an executeCommand invocation that resolves a command runs exactly one process,
\* the translated command with the quoted args; it returns COMMAND_FAILED for every
\* termination whose exit code is not zero and the success payload only when the exit
\* code is zero; the suggestion is returned as text and never run.
C3_OneProcessAndExitCode ==
  (call.op = "executeCommand" /\ call.resolved.t = "string" /\ ~Falsy(call.resolved)) =>
    /\ Len(call.payload.spawned) = 1
    /\ Len(call.payload.ended) = 1
    /\ call.payload.spawned[1] = call.payload.resolvedCommand
    /\ \A i \in 1..Len(call.payload.ended) :
         LET zero == ~call.payload.ended[i].signalled /\ call.payload.ended[i].code = 0
         IN /\ ~zero => call.payload.kind = "COMMAND_FAILED"
            /\ call.payload.kind = "SUCCESS" => zero
    /\ \A i \in 1..Len(call.payload.spawned) :
         call.payload.suggestion.t = "string" =>
           call.payload.spawned[i] # call.payload.suggestion.s

\* C4: after setProjectCommand(p, k, v) the stored table is the one before with
\* table[p][k] = v and every other entry unchanged, and resolve(p, k) and
\* getMerged(p)[k] return v until the next set or remove on (p, k).
C4_SetFrameAndPinned ==
  /\ call.op = "setProjectCommand" =>
       \A pn \in ProjectNames, k \in Keys :
         EntryOf(projectCommands, pn, k) =
           IF pn = call.projectName /\ k = call.key THEN Str(call.value)
           ELSE EntryOf(call.before, pn, k)
  /\ \A x \in ProjectNames \X Keys :
       hist.pinned[x].t = "string" =>
         /\ ResolveNow(x[1], x[2]) = hist.pinned[x]
         /\ MergedNow(x[1])[x[2]] = hist.pinned[x]

\* C5: removeProjectCommand(p, k) returns removed = true exactly when k was in table[p]
\* before, leaves k absent from table[p], never modifies the default sub-mapping or
\* another project's entries, and when k was not set for p the stored table is unchanged.
\* Stated for the project p, which is not the default one, and the keys no object
\* inherits.
C5_RemoveFrame ==
  (call.op = "removeProjectCommand" /\ call.projectName = "p" /\ call.key \in PlainKeys) =>
    LET was == EntryOf(call.before, call.projectName, call.key).t # "undefined"
    IN /\ call.removed <=> was
       /\ EntryOf(projectCommands, call.projectName, call.key) = Undefined
       /\ \A k \in Keys : EntryOf(projectCommands, "default", k) = EntryOf(call.before, "default", k)
       /\ \A pn \in ProjectNames \ {call.projectName}, k \in Keys :
            EntryOf(projectCommands, pn, k) = EntryOf(call.before, pn, k)
       /\ ~was => (~call.removed /\ projectCommands = call.before)

\* C6: when the command-key file is absent or corrupt, the first operation that
\* accesses it raises no error and persists the baseline default.install =
\* "npm install", default.run = "npm start"; afterwards resolve(q, "install") for a
\* project q with no override is "npm install" unless default.install was changed.
C6_BaselineSeeded ==
  (/\ hist.startedMissing
   /\ call.op \in {"executeCommand", "getProjectCommands", "setProjectCommand",
                   "removeProjectCommand"}
   /\ call.projectName = "p"
   /\ call.op = "getProjectCommands" \/ call.key \in PlainKeys) =>
    /\ (call.before.st # "ok") =>
         /\ call.op = "executeCommand" => call.payload.kind # "THROWN"
         /\ EntryOf(projectCommands, "default", "install") = Str(NpmInstall)
         /\ EntryOf(projectCommands, "default", "run") = Str(NpmStart)
    /\ (~hist.defaultInstallChanged /\ hist.pinned[<<"p", "install">>].t = "undefined") =>
         ResolveNow("p", "install") = Str(NpmInstall)

----------------------------------------------------------------------------
(* The segment splitter on its own: every raw command of at most MaxLen characters *)

SplitAlphabet == {"a", " ", "&", "|", ";"}

\* the store is not involved in the pure-function specifications
StoreIdle ==
  /\ projectCommands = AbsentFile(NoTable)
  /\ objectPrototype = InitialPrototype
  /\ hist = NoHistory
  /\ call = NoCall

SplitPipelines(cmd) ==
  /\ call' = [op |-> "splitPipelines", cmd |-> cmd, parts |-> splitPipelines(cmd)]
  /\ UNCHANGED <<projectCommands, commandMap, objectPrototype, os, hist>>

InitSplit ==
  /\ StoreIdle
  /\ commandMap = AbsentFile(EmptyMap)
  /\ os = "linux"

\* one application per run
NextSplit ==
  /\ call = NoCall
  /\ \E cmd \in StringsUpTo(SplitAlphabet, MaxLen) : SplitPipelines(cmd)

SpecSplit == InitSplit /\ [][NextSplit]_vars

\* the first position of the run of equal characters that position i of cmd is in
RunStart(cmd, i) ==
  CHOOSE j \in 1..i :
    /\ \A m \in j..i : cmd[m] = cmd[i]
    /\ j = 1 \/ cmd[j - 1] # cmd[i]

\* what position i of cmd is: "one" a one-character separator, "first" or "second"
\* the halves of a two-character separator, "plain" fragment text.  In a run of & or
\* of |, pairs are taken from the left.
KindAt(cmd, i) ==
  IF cmd[i] = ";" THEN "one"
  ELSE IF cmd[i] \in {"&", "|"}
    THEN IF (i - RunStart(cmd, i)) % 2 = 1 THEN "second"
         ELSE IF i < Len(cmd) /\ cmd[i + 1] = cmd[i] THEN "first"
         ELSE IF cmd[i] = "|" THEN "one"
         ELSE "plain"
  ELSE "plain"

\* the separator occurrences and the maximal stretches of fragment text of cmd
SeparatorSpans(cmd) ==
  {[from |-> i, to |-> i, sep |-> TRUE] : i \in {j \in 1..Len(cmd) : KindAt(cmd, j) = "one"}}
  \cup
  {[from |-> i, to |-> i + 1, sep |-> TRUE] :
     i \in {j \in 1..Len(cmd) : KindAt(cmd, j) = "first"}}

TextSpans(cmd) ==
  {[from |-> a, to |-> b, sep |-> FALSE] :
     <<a, b>> \in {x \in (1..Len(cmd)) \X (1..Len(cmd)) :
                    /\ x[1] <= x[2]
                    /\ \A m \in x[1]..x[2] : KindAt(cmd, m) = "plain"
                    /\ x[1] = 1 \/ KindAt(cmd, x[1] - 1) # "plain"
                    /\ x[2] = Len(cmd) \/ KindAt(cmd, x[2] + 1) # "plain"
                    /\ ~IsBlank(SubSeq(cmd, x[1], x[2]))}}

\* the tokens the specification asks for, in source order
ExpectedTokens(cmd) ==
  LET spans == SeparatorSpans(cmd) \cup TextSpans(cmd)
      nth(i) == CHOOSE x \in spans : Cardinality({y \in spans : y.from < x.from}) = i - 1
  IN [i \in 1..Cardinality(spans) |->
        IF nth(i).sep THEN SubSeq(cmd, nth(i).from, nth(i).to)
        ELSE Trim(SubSeq(cmd, nth(i).from, nth(i).to))]

HasSeparator(s) == Includes(s, Semi) \/ Includes(s, Pipe) \/ Includes(s, AndAnd)

\* C7: split returns the tokens in source order: every occurrence of &&, ||, |, ; is a
\* separator (two-character ones matched first), the text between separators is one
\* trimmed fragment when it is not blank; no two fragments are adjacent, no fragment
\* contains a separator, an input without separators gives the trimmed input alone,
\* and a blank input gives the empty sequence.
C7_SplitTokens ==
  call.op = "splitPipelines" =>
    LET parts == call.parts
        frag(i) == parts[i] \notin Separators
    IN /\ parts = ExpectedTokens(call.cmd)
       /\ \A i \in 1..(Len(parts) - 1) : ~(frag(i) /\ frag(i + 1))
       /\ \A i \in 1..Len(parts) :
            frag(i) => /\ parts[i] # <<>>
                       /\ parts[i] = Trim(parts[i])
                       /\ ~HasSeparator(parts[i])
       /\ ~HasSeparator(call.cmd) =>
            parts = IF IsBlank(call.cmd) THEN <<>> ELSE <<Trim(call.cmd)>>

\* a run with adjacent separators, a trimmed fragment and a two-character separator
C7_Witness ==
  /\ call.op = "splitPipelines"
  /\ \E i \in 1..(Len(call.parts) - 1) :
       call.parts[i] \in Separators /\ call.parts[i + 1] \in Separators
  /\ \E i \in 1..Len(call.parts) : call.parts[i] \in {AndAnd, OrOr}
  /\ \E i \in 1..Len(call.parts) : call.parts[i] \notin Separators

----------------------------------------------------------------------------
(* The per-segment translator on its own: segments, hosts and translation tables *)

UpperLs == <<"L", "S">>
MixedRm == <<"R", "m">>

\* the maps from OS to replacement an entry of a table holds: none, or one for windows
ValueMaps(values) ==
  {[o \in OSes |-> Undefined]}
  \cup {[o \in OSes |-> IF o = "windows" THEN Str(v) ELSE Undefined] : v \in values}

\* the translation tables with at most n base keys, in the order Object.keys gives
TablesOf(keys, values, n) ==
  LET entries == {[key |-> k, vals |-> m] : k \in keys, m \in ValueMaps(values)}
  IN {[base |-> b] :
        b \in {t \in UNION {[1..k -> entries] : k \in 0..n} :
                \A i, j \in 1..Len(t) : i < j => t[i].key # t[j].key}}

SegmentKeys == {Ls, UpperLs, Rm, RmRfKey}
SegmentValues == {<<>>, Dir, <<" ", "x">>}

SegmentHeads == {Rm, MixedRm, Ls}
SegmentTails ==
  {<<>>,
   <<" ", "b">>,
   <<" ", "-", "r", "f">>,
   <<" ", "-", "r", "f", " ", "b">>,
   <<" ", "-", "r", "f", "b">>,
   <<" ", " ", "-", "r", "f", " ", " ", "b">>}

TranslateSingle(seg) ==
  /\ call' = [op |-> "translateSingle", cmd |-> seg, map |-> commandMap.data,
              translated |-> translateSingle(seg, os, commandMap.data)]
  /\ UNCHANGED <<projectCommands, commandMap, objectPrototype, os, hist>>

InitSegment ==
  /\ StoreIdle
  /\ commandMap \in {OkFile(t) : t \in TablesOf(SegmentKeys, SegmentValues, MaxKeys)}
  /\ os \in OSes

\* one application per run
NextSegment ==
  /\ call = NoCall
  /\ \E h \in SegmentHeads, t \in SegmentTails : TranslateSingle(h \o t)

SpecSegment == InitSegment /\ [][NextSegment]_vars

\* the base keys of the table that equal the head ignoring case, as indices
MatchingKeys(base, head) ==
  {k \in 1..Len(base) : ToLowerCase(base[k].key) = ToLowerCase(head)}

\* the segment is a recursive delete: head rm in any case, trimmed tail starting -rf
IsRmRf(seg) == ToLowerCase(HeadOf(seg)) = Rm /\ StartsWith(Trim(TailOf(seg)), DashRf)

\* R, a space, and what follows the -rf of the trimmed tail, trimmed
RmRfResult(r, seg) ==
  LET t == Trim(TailOf(seg))
  IN Trim(r \o <<" ">> \o Trim(SubSeq(t, Len(DashRf) + 1, Len(t))))

\* the reserved key maps to a non-empty replacement for the host
RmRfMapped(base, o) ==
  \E k \in 1..Len(base) :
    base[k].key = RmRfKey /\ base[k].vals[o].t = "string" /\ base[k].vals[o].s # <<>>

RmRfReplacement(base, o) ==
  base[CHOOSE k \in 1..Len(base) : base[k].key = RmRfKey].vals[o].s

\* C8 as stated: for every table that maps the reserved key rm -rf to a replacement R
\* for the host, a segment with head rm (any case) and trimmed tail starting with -rf
\* translates to R, a space and the rest of the tail without the -rf, trimmed.
C8_RmRfEveryTable ==
  (call.op = "translateSingle" /\ IsRmRf(call.cmd) /\ RmRfMapped(call.map.base, os)) =>
    call.translated = RmRfResult(RmRfReplacement(call.map.base, os), call.cmd)

\* C8 as amended: the same, for the tables in which no base key equals rm ignoring case
C8_RmRfWithoutRmKey ==
  (/\ call.op = "translateSingle"
   /\ IsRmRf(call.cmd)
   /\ RmRfMapped(call.map.base, os)
   /\ MatchingKeys(call.map.base, Rm) = {}) =>
    call.translated = RmRfResult(RmRfReplacement(call.map.base, os), call.cmd)

\* a recursive delete with a path, head not in lower case, rewritten by the reserved key
C8_Witness ==
  /\ call.op = "translateSingle"
  /\ call.cmd = MixedRm \o <<" ", "-", "r", "f", " ", "b">>
  /\ RmRfMapped(call.map.base, os)
  /\ MatchingKeys(call.map.base, Rm) = {}
  /\ call.translated = Dir \o <<" ", "b">>

\* the value of the first matching key for the host, or the head when it has none
FirstValue(base, head, o) ==
  LET k == CHOOSE i \in MatchingKeys(base, head) : \A j \in MatchingKeys(base, head) : i <= j
  IN IF base[k].vals[o].t = "string" THEN base[k].vals[o].s ELSE head

\* C9 as stated: if some base key equals the head ignoring case, translateOne returns
\* that key's value for the host (or the head when it has none) followed by the tail
\* unmodified; if no key matches and the recursive-delete rule does not apply, the
\* segment is returned unchanged.
C9_HeadReplacedTailKept ==
  call.op = "translateSingle" =>
    LET base == call.map.base
        head == HeadOf(call.cmd)
        tail == TailOf(call.cmd)
    IN /\ MatchingKeys(base, head) # {} =>
            \E k \in MatchingKeys(base, head) :
              call.translated =
                (IF base[k].vals[os].t = "string" THEN base[k].vals[os].s ELSE head) \o tail
       /\ (MatchingKeys(base, head) = {} /\ ~(IsRmRf(call.cmd) /\ RmRfMapped(base, os))) =>
            call.translated = call.cmd

\* C9 as amended: the value V is that of the first matching key in table order; when V
\* is not empty the result is V followed by the tail, trimmed as a whole; when V is
\* empty the recursive-delete rule is still tried and otherwise the result is the
\* trimmed tail; with no matching key and no recursive delete, the segment is unchanged.
C9_FirstKeyThenTrim ==
  call.op = "translateSingle" =>
    LET base == call.map.base
        head == HeadOf(call.cmd)
        tail == TailOf(call.cmd)
        rmrf == IsRmRf(call.cmd) /\ RmRfMapped(base, os)
    IN /\ (MatchingKeys(base, head) # {} /\ FirstValue(base, head, os) # <<>>) =>
            call.translated = Trim(FirstValue(base, head, os) \o tail)
       /\ (MatchingKeys(base, head) # {} /\ FirstValue(base, head, os) = <<>>) =>
            call.translated =
              IF rmrf THEN RmRfResult(RmRfReplacement(base, os), call.cmd) ELSE Trim(tail)
       /\ (MatchingKeys(base, head) = {} /\ ~rmrf) => call.translated = call.cmd

\* a head matched through a key of another case, replaced, the tail kept
C9_Witness ==
  /\ call.op = "translateSingle"
  /\ call.cmd = Ls \o <<" ", "b">>
  /\ MatchingKeys(call.map.base, Ls) # {}
  /\ \A k \in MatchingKeys(call.map.base, Ls) : call.map.base[k].key = UpperLs
  /\ call.translated = Dir \o <<" ", "b">>

----------------------------------------------------------------------------
(* The command-line translator on its own: raw command lines and translation tables *)

RmRfSpace == <<"r", "m", " ", "-", "r", "f", " ">>
DashRfPath == <<"-", "r", "f", " ", "b">>
XSemi == <<"x", ";">>

RawAtoms == {Ls, RmRfSpace, DashRfPath, <<" ">>, <<";">>, <<"&">>, <<"|">>}
TranslateKeys == {Ls, RmRfKey}
TranslateValues == {<<>>, Rm, XSemi}

InitTranslate ==
  /\ StoreIdle
  /\ commandMap \in {AbsentFile(EmptyMap)}
                     \cup {OkFile(t) : t \in TablesOf(TranslateKeys, TranslateValues, MaxKeys)}
  /\ os \in {"windows", "linux"}

\* one request per run
NextTranslate ==
  /\ call = NoCall
  /\ \E r \in AtomStrings(RawAtoms, MaxAtoms) : TranslateCommand(r)
  /\ UNCHANGED hist

SpecTranslate == InitTranslate /\ [][NextTranslate]_vars

\* the tokens of split(raw), separators kept and fragments replaced by translateOne
MappedTokens(raw, o, map) ==
  LET tokens == splitPipelines(raw)
  IN [i \in 1..Len(tokens) |->
        IF tokens[i] \in Separators THEN tokens[i] ELSE translateSingle(tokens[i], o, map)]

\* the separators of a command line with the index of the token each one is
SeparatorsAt(cmd) ==
  LET tokens == splitPipelines(cmd)
  IN {<<i, tokens[i]>> : i \in {j \in 1..Len(tokens) : tokens[j] \in Separators}}

Fragments(raw) ==
  LET tokens == splitPipelines(raw)
  IN {tokens[i] : i \in {j \in 1..Len(tokens) : tokens[j] \notin Separators}}

\* no base key of the table equals the head of a fragment of raw, ignoring case
MatchesNoHead(raw, map) ==
  \A f \in Fragments(raw) : MatchingKeys(map.base, HeadOf(f)) = {}

\* the recursive-delete rule rewrites no fragment of raw
NoRmRfRewrite(raw, o, map) ==
  \A f \in Fragments(raw) : ~(IsRmRf(f) /\ RmRfMapped(map.base, o))

\* every replacement the table holds for the host is non-blank and free of separators
PlainValues(o, map) ==
  \A k \in 1..Len(map.base) :
    map.base[k].vals[o].t = "string" =>
      /\ ~IsBlank(map.base[k].vals[o].s)
      /\ \A sep \in Separators : ~Includes(map.base[k].vals[o].s, sep)

\* C10 as stated: translate(raw) is the tokens of split(raw), separators unchanged and
\* fragments replaced by translateOne, joined by single spaces; the separators of the
\* output are those of the input in the same order and positions; and with a table
\* that matches no head, translating the output again gives the output.
C10_JoinSeparatorsIdempotent ==
  call.op = "translateCommand" =>
    /\ call.translated = Join(MappedTokens(call.original, os, call.map), <<" ">>)
    /\ SeparatorsAt(call.translated) = SeparatorsAt(call.original)
    /\ MatchesNoHead(call.original, call.map) =>
         translateCommandForOS(call.translated, os, call.map) = call.translated

\* C10 as amended: the join always; the separators when every replacement for the host
\* is non-blank and contains no separator; the idempotence when the table matches no
\* head and the recursive-delete rule rewrites no fragment.
C10_JoinAndPlainTables ==
  call.op = "translateCommand" =>
    /\ call.translated = Join(MappedTokens(call.original, os, call.map), <<" ">>)
    /\ PlainValues(os, call.map) =>
         SeparatorsAt(call.translated) = SeparatorsAt(call.original)
    /\ (MatchesNoHead(call.original, call.map) /\ NoRmRfRewrite(call.original, os, call.map)) =>
         translateCommandForOS(call.translated, os, call.map) = call.translated

\* two fragments around a separator, each rewritten, the separator kept between them
C10_Witness ==
  /\ call.op = "translateCommand"
  /\ call.original = Ls \o <<";">> \o Ls
  /\ PlainValues(os, call.map)
  /\ call.translated = Rm \o <<" ", ";", " ">> \o Rm

----------------------------------------------------------------------------
(* The suggestion engine on its own: failed commands, error texts, flavors and keys *)

NpmI == <<"n", "p", "m", " ", "i">>
UpperNpmRun == <<"N", "P", "M", " ", "r", "u", "n", " ", "x">>
PipI == <<"p", "i", "p", " ", "i">>
NpmIPip == <<"n", "p", "m", " ", "i", " ", "p", "i", "p">>

\* the original commands the engine is asked about
SuggestCommands == {NpmI, UpperNpmRun, PipI, NpmIPip, Ls}

\* what the failed child wrote to its error stream
SuggestStderrs == {<<>>, Npm}

\* the flags detectProjectFlavor can return, as the sets of the true ones
SuggestFlavors ==
  {{}, {"bun"}, {"yarn"}, {"pnpm"}, {"poetry"}, {"pipenv"},
   {"bun", "yarn"}, {"yarn", "pnpm"}, {"poetry", "pipenv"}, {"yarn", "poetry"},
   FlavorNames}

\* the commandKey of the request
SuggestKeys == {"install", "run", "test"}

BuildSuggestion(cmd, stderr, flavor, key) ==
  /\ call' = [op |-> "buildSuggestion", cmd |-> cmd, stderr |-> stderr, flavor |-> flavor,
              key |-> key, suggestion |-> buildSuggestion(cmd, stderr, flavor, key),
              prev |-> call]
  /\ UNCHANGED <<projectCommands, commandMap, objectPrototype, os, hist>>

InitSuggest ==
  /\ StoreIdle
  /\ commandMap = AbsentFile(EmptyMap)
  /\ os = "linux"

\* two failed commands per run
NextSuggest ==
  /\ IF call = NoCall THEN TRUE ELSE call.prev = NoCall
  /\ \E cmd \in SuggestCommands, stderr \in SuggestStderrs,
        flavor \in SuggestFlavors, key \in SuggestKeys :
       BuildSuggestion(cmd, stderr, flavor, key)

SpecSuggest == InitSuggest /\ [][NextSuggest]_vars

\* the command mentions an npm invocation / a pip invocation
MentionsNpm(cmd) == Includes(ToLowerCase(cmd), NpmSpace)
MentionsPip(cmd) == \E i \in 1..Len(cmd) : WordAt(ToLowerCase(cmd), Pip, i)

\* C11: suggest applies the first matching rule only: for a command that mentions npm
\* the result is decided by bun, yarn, pnpm in that priority (the fixed texts for the
\* keys install and run), and without any of them there is no suggestion; the pip rule
\* (poetry before pipenv) is consulted only for commands that do not mention npm; in
\* every other case there is no suggestion.
C11_FirstMatchingRuleOnly ==
  call.op = "buildSuggestion" =>
    LET f == call.flavor
        k == call.key
        r == call.suggestion
    IN IF MentionsNpm(call.cmd)
         THEN IF "bun" \in f
                THEN /\ r.t = "string"
                     /\ k = "install" => r = Str(BunInstall)
                     /\ k = "run" => r = Str(BunRunDev)
              ELSE IF "yarn" \in f
                THEN r.t = "string" /\ (k = "install" => r = Str(YarnInstall))
              ELSE IF "pnpm" \in f
                THEN r.t = "string" /\ (k = "install" => r = Str(PnpmInstall))
              ELSE r = Undefined
       ELSE IF MentionsPip(call.cmd)
         THEN IF "poetry" \in f THEN r = Str(PoetryInstall)
              ELSE IF "pipenv" \in f THEN r = Str(PipenvInstall)
              ELSE r = Undefined
       ELSE r = Undefined

\* C12: two calls with the same command, flavor and key give the same suggestion or the
\* same absence whatever the error text, and with all five flags false there is no
\* suggestion for any command and key.
C12_StderrIgnoredNoFlagsNoSuggestion ==
  call.op = "buildSuggestion" =>
    /\ call.flavor = {} => call.suggestion = Undefined
    /\ (/\ call.prev # NoCall
        /\ call.prev.cmd = call.cmd
        /\ call.prev.flavor = call.flavor
        /\ call.prev.key = call.key) => call.prev.suggestion = call.suggestion

\* the same failed npm command asked about twice with different error texts, a
\* suggestion given both times
C12_Witness ==
  /\ call.op = "buildSuggestion"
  /\ call.prev # NoCall
  /\ call.prev.cmd = NpmI /\ call.cmd = NpmI
  /\ call.prev.flavor = {"yarn", "pnpm"} /\ call.flavor = {"yarn", "pnpm"}
  /\ call.prev.key = "install" /\ call.key = "install"
  /\ call.prev.stderr # call.stderr
  /\ call.suggestion = Str(YarnInstall)

----------------------------------------------------------------------------
(* C13: persistence of removeProjectCommand, under Spec *)

\* C13: every removeProjectCommand(p, k) invocation writes the whole table to storage
\* before it returns, whether or not anything was removed, also when p has no
\* sub-mapping in the stored table.  A write is that of saveJson, or that of loadJson
\* when the file could not be read.
C13_RemoveAlwaysPersists ==
  call.op = "removeProjectCommand" => (call.saved \/ call.before.st # "ok")

----------------------------------------------------------------------------
(* Two invocations of setProjectCommand / removeProjectCommand whose awaits interleave *)

Invocations == {1, 2}

\* the requests in flight: a set or a remove on an own project name and a plain key
Requests ==
  {[op |-> "setProjectCommand", projectName |-> pn, key |-> k, value |-> Ls] :
     pn \in OwnNames, k \in PlainKeys}
  \cup {[op |-> "removeProjectCommand", projectName |-> pn, key |-> k, value |-> <<>>] :
          pn \in OwnNames, k \in PlainKeys}

\* an invocation not yet made
Idle == [pc |-> "idle", req |-> NoCall, data |-> NoTable, result |-> NoCall]

\* the handler is called and its readFile settles: with the parsed table, or with a
\* failure, after which loadJson goes on to write the fallback
BeginInvocation(i, req) ==
  /\ call.inv[i].pc = "idle"
  /\ call' = [call EXCEPT !.inv[i] =
                IF projectCommands.st = "ok"
                  THEN [pc |-> "loaded", req |-> req, result |-> NoCall,
                        data |-> loadJson(projectCommands, EmptyDefault).data]
                ELSE [pc |-> "seeding", req |-> req, result |-> NoCall, data |-> NoTable]]
  /\ hist' = Append(hist, <<i, "read">>)
  /\ UNCHANGED <<projectCommands, commandMap, objectPrototype, os>>

\* the catch branch of loadJson: writeFile(p, fallback), return fallback
SeedFallback(i) ==
  /\ call.inv[i].pc = "seeding"
  /\ LET lp == loadJson(AbsentFile(NoTable), EmptyDefault)
     IN /\ projectCommands' = lp.file
        /\ call' = [call EXCEPT !.inv[i].pc = "loaded", !.inv[i].data = lp.data]
  /\ hist' = Append(hist, <<i, "seed">>)
  /\ UNCHANGED <<commandMap, objectPrototype, os>>

\* the rest of the function: the change in memory, saveJson, the value returned
MutateAndSave(i) ==
  /\ call.inv[i].pc = "loaded"
  /\ LET req == call.inv[i].req
         data == call.inv[i].data
     IN IF req.op = "setProjectCommand"
          THEN LET res == setProjectCommand(data, objectPrototype, req.projectName,
                                            req.key, req.value)
               IN /\ projectCommands' = saveJson(res.data)
                  /\ objectPrototype' = res.proto
                  /\ call' = [call EXCEPT !.inv[i].pc = "done",
                                          !.inv[i].data = res.data,
                                          !.inv[i].result =
                                            [projectName |-> req.projectName,
                                             key |-> req.key, value |-> req.value]]
        ELSE LET res == removeProjectCommand(data, objectPrototype, req.projectName,
                                             req.key)
             IN /\ projectCommands' = IF res.saved THEN saveJson(res.data)
                                      ELSE projectCommands
                /\ objectPrototype' = res.proto
                /\ call' = [call EXCEPT !.inv[i].pc = "done",
                                        !.inv[i].data = res.data,
                                        !.inv[i].result = [removed |-> res.removed]]
  /\ hist' = Append(hist, <<i, "write">>)
  /\ UNCHANGED <<commandMap, os>>

InitRace ==
  /\ projectCommands \in {AbsentFile(NoTable), OkFile(Defaults), OkFile(OverrideTable)}
  /\ commandMap = AbsentFile(EmptyMap)
  /\ objectPrototype = InitialPrototype
  /\ os = "linux"
  /\ call = [op |-> "race", inv |-> [i \in Invocations |-> Idle]]
  /\ hist = <<>>

NextRace ==
  \/ \E i \in Invocations, req \in Requests : BeginInvocation(i, req)
  \/ \E i \in Invocations : SeedFallback(i)
  \/ \E i \in Invocations : MutateAndSave(i)

SpecRace == InitRace /\ [][NextRace]_vars

\* both invocations have returned
BothDone == call.op = "race" /\ \A i \in Invocations : call.inv[i].pc = "done"

\* the two invocations are on different (project, key) pairs
DifferentPairs ==
  <<call.inv[1].req.projectName, call.inv[1].req.key>>
    # <<call.inv[2].req.projectName, call.inv[2].req.key>>

\* one invocation took all its steps before the other took its first
NotInterleaved ==
  \E i \in Invocations :
    \A a, b \in 1..Len(hist) : (hist[a][1] = i /\ hist[b][1] # i) => a < b

\* the stored table shows the update invocation i made
UpdatePresent(i) ==
  LET req == call.inv[i].req
  IN EntryOf(projectCommands, req.projectName, req.key) =
       IF req.op = "setProjectCommand" THEN Str(req.value) ELSE Undefined

\* C14: set and remove load the whole table, change it in memory and write it back
\* with no lock; two invocations on different (project, key) pairs that do not
\* interleave leave both updates in the stored table.  (That interleaved ones can lose
\* an update although both reported success is the state C14_Witness describes.)
C14_SequentialKeepsBoth ==
  (BothDone /\ DifferentPairs /\ NotInterleaved) =>
    \A i \in Invocations : UpdatePresent(i)

\* two interleaved invocations on different pairs, both returned with success, the
\* stored table is the last writer's and the other one's set value is not in it
C14_Witness ==
  /\ BothDone
  /\ DifferentPairs
  /\ ~NotInterleaved
  /\ \A i \in Invocations : call.inv[i].req.op = "setProjectCommand"
  /\ \A i \in Invocations : call.inv[i].result.value = call.inv[i].req.value
  /\ hist[Len(hist)] = <<2, "write">>
  /\ projectCommands = saveJson(call.inv[2].data)
  /\ UpdatePresent(2)
  /\ ~UpdatePresent(1)

====
